---- MODULE Spec2Model ----
(***************************************************************************)
(* CustomFormMultiSelect and ProfileHeader                                 *)
(* (src/components/input-component/multi-select-input.tsx) as state        *)
(* machines.  One action per event handler, effect run or promise          *)
(* settlement.  React state is read through closures that are re-created   *)
(* on every render, and React re-renders before the next event is          *)
(* dispatched, so every handler reads the current state.                   *)
(***************************************************************************)
EXTENDS Integers, Sequences, FiniteSets

(* ---------------------------------------------------------------- bounds *)

\* at most this many loadOptions calls are in flight at once
MaxPending == 2
\* at most this many change events reach the profile header's file inputs
MaxChangeEvents == 4

(* ---------------------------------------------------------------- values *)

\* JavaScript's undefined and null, as values of the watched field
UNDEFINED == "<undefined>"
NULL == "<null>"

\* what the watched field can hold
DependencyValues == {UNDEFINED, NULL, "", "a", "b"}

\* lines 11-14: an Option and its label
LabelOf(v) == CASE v = "x" -> "X" [] v = "y" -> "Y" [] OTHER -> "Z"
Opt(v) == [value |-> v, label |-> LabelOf(v)]

\* the option lists the options prop or a loadOptions call can deliver
OptionLists ==
    { <<>>,
      <<Opt("x"), Opt("y")>>,
      <<Opt("y"), Opt("z")>>,
      <<Opt("z"), Opt("x"), Opt("z")>> }

\* field.value: undefined, or an array of strings
FieldUndefined == [def |-> FALSE, arr |-> <<>>]
FieldArray(s) == [def |-> TRUE, arr |-> s]

\* the field values the form can hand to the component at mount
\* (its defaultValues): undefined, empty, sets, and arrays with a repeat
InitialFieldValues ==
    { FieldUndefined,
      FieldArray(<<>>),
      FieldArray(<<"x">>),
      FieldArray(<<"y", "x">>),
      FieldArray(<<"z", "y", "x">>),
      FieldArray(<<"x", "z", "x">>) }

\* the argument of a loadOptions call: undefined, or { [dependsOn]: value }
NoFormData == [keyed |-> FALSE, value |-> UNDEFINED]
KeyedFormData(v) == [keyed |-> TRUE, value |-> v]

VARIABLES
    loadOptions,      \* prop: is a loadOptions function given
    dependsOn,        \* prop: is a dependsOn field name given
    disabled,         \* prop
    options,          \* useState: the options list
    loading,          \* useState
    dependencyValue,  \* useWatch: the watched field's value as last rendered
    effectPending,    \* the effect of the last commit has not run yet
    calls,            \* loadOptions calls awaiting settlement, in start order
    fieldValue,       \* field.value of the form library
    open,             \* the popover is open
    latest,           \* history: outcome of the most recently started call
    startedAsSet,     \* history: the field value at mount had no duplicates
    startedWithin,    \* history: the field value at mount held option values only
    event,            \* history: the handler that ran last
    isUploading,      \* ProfileHeader useState
    coverIsUploading, \* ProfileHeader useState
    uploads,          \* profile uploads awaiting their timer
    coverUploads,     \* cover uploads awaiting their timer
    changeEvents,     \* change events delivered so far
    toasts            \* toast variants emitted so far, in order

msVars == <<loadOptions, dependsOn, disabled, options, loading, dependencyValue,
            effectPending, calls, fieldValue, open, latest, startedAsSet, startedWithin,
            event>>
phVars == <<isUploading, coverIsUploading, uploads, coverUploads, changeEvents, toasts>>
vars == <<msVars, phVars>>

(* --------------------------------------------------------------- helpers *)

\* Array.prototype.includes
Includes(s, v) == \E i \in DOMAIN s : s[i] = v

\* Array.prototype.filter((x) => x !== v)
FilterOut(s, v) == SelectSeq(s, LAMBDA x : x # v)

\* number of occurrences of v in s
Count(s, v) == Cardinality({i \in DOMAIN s : s[i] = v})

NoDuplicates(s) == \A i, j \in DOMAIN s : s[i] = s[j] => i = j

\* s without its i-th element
RemoveAt(s, i) == SubSeq(s, 1, i - 1) \o SubSeq(s, i + 1, Len(s))

\* the values of an options list
ValuesOf(opts) == [i \in DOMAIN opts |-> opts[i].value]

Event(type, value, flag) == [type |-> type, value |-> value, flag |-> flag]

\* line 47
HasDependencyValue(v) == v # UNDEFINED /\ v # NULL /\ v # ""

\* line 56
FormData(dep, v) == IF dep THEN KeyedFormData(v) ELSE NoFormData

\* line 93: the trigger button's disabled attribute
TriggerDisabled ==
    disabled \/ loading \/ (dependsOn /\ ~HasDependencyValue(dependencyValue))

\* lines 95-104: the badges are rendered
BadgesRendered ==
    /\ ~loading
    /\ ~(dependsOn /\ ~HasDependencyValue(dependencyValue))
    /\ fieldValue.def
    /\ Len(fieldValue.arr) > 0

\* lines 135-146: the command items are rendered
ItemsRendered == open /\ ~loading /\ Len(options) > 0

(* ------------------------------------------------------ multi-select init *)

InitMultiSelect ==
    /\ loadOptions \in BOOLEAN
    /\ dependsOn \in BOOLEAN
    /\ disabled \in BOOLEAN
    /\ options \in OptionLists
    /\ loading = loadOptions
    /\ dependencyValue \in (IF dependsOn THEN DependencyValues ELSE {UNDEFINED})
    /\ effectPending = TRUE
    /\ calls = <<>>
    /\ fieldValue \in InitialFieldValues
    /\ open = FALSE
    /\ latest = [status |-> "none", result |-> <<>>]
    /\ startedAsSet = NoDuplicates(fieldValue.arr)
    /\ startedWithin =
           \A i \in DOMAIN fieldValue.arr : Includes(ValuesOf(options), fieldValue.arr[i])
    /\ event = Event("mount", "", FALSE)

InitProfileIdle ==
    /\ isUploading = FALSE
    /\ coverIsUploading = FALSE
    /\ uploads = 0
    /\ coverUploads = 0
    /\ changeEvents = 0
    /\ toasts = <<>>

(* --------------------------------------------------- multi-select actions *)

\* a select that replaces the selection instead of extending it
MutToggledValueReplaces(fv, selectedValue, isSelected) ==
    LET newValue == IF fv.def THEN fv.arr ELSE <<>>
    IN  IF isSelected THEN FilterOut(newValue, selectedValue)
        ELSE <<selectedValue>>

\* lines 152-160: what CommandItem.onSelect hands to field.onChange
ToggledValue(fv, selectedValue, isSelected) ==
    LET newValue == IF fv.def THEN fv.arr ELSE <<>>
    IN  IF isSelected THEN FilterOut(newValue, selectedValue)
        ELSE Append(newValue, selectedValue)

\* an isSelected that never sees the current selection
MutIsSelectedNever(fv, v) == FALSE

\* line 147: isSelected of the rendered item
IsSelected(fv, v) == fv.def /\ Includes(fv.arr, v)

\* a select that stores the option's label
MutItemValueIsLabel(opts, i) == opts[i].label

\* lines 146-154: option.value of the i-th rendered command item
ItemValue(opts, i) == opts[i].value

\* lines 146-160: the user picks the i-th command item
OnSelect(i) ==
    /\ ~effectPending
    /\ ItemsRendered
    /\ i \in DOMAIN options
    /\ LET selectedValue == ItemValue(options, i)
           isSelected == IsSelected(fieldValue, selectedValue)
       IN  /\ fieldValue' = FieldArray(ToggledValue(fieldValue, selectedValue, isSelected))
           /\ event' = Event("select", selectedValue, isSelected)
    /\ UNCHANGED <<loadOptions, dependsOn, disabled, options, loading, dependencyValue,
                   effectPending, calls, open, latest, startedAsSet, startedWithin>>
    /\ UNCHANGED phVars

\* a badge click without the disabled check
MutBadgeClickedWhenDisabled(fv, value, isDisabled) ==
    FieldArray(FilterOut(fv.arr, value))

\* lines 111-116: what Badge.onClick leaves in the field
BadgeClicked(fv, value, isDisabled) ==
    IF isDisabled THEN fv ELSE FieldArray(FilterOut(fv.arr, value))

\* lines 105-116: the user clicks the badge of the i-th selected value
OnBadgeClick(i) ==
    /\ ~effectPending
    /\ BadgesRendered
    /\ i \in DOMAIN fieldValue.arr
    /\ fieldValue' = BadgeClicked(fieldValue, fieldValue.arr[i], disabled)
    /\ event' = Event("badge", fieldValue.arr[i], disabled)
    /\ UNCHANGED <<loadOptions, dependsOn, disabled, options, loading, dependencyValue,
                   effectPending, calls, open, latest, startedAsSet, startedWithin>>
    /\ UNCHANGED phVars

\* lines 83-94: the trigger button opens or closes the popover
TogglePopover ==
    /\ ~effectPending
    /\ open \/ ~TriggerDisabled
    /\ open' = ~open
    /\ event' = Event("popover", "", open')
    /\ UNCHANGED <<loadOptions, dependsOn, disabled, options, loading, dependencyValue,
                   effectPending, calls, fieldValue, latest, startedAsSet, startedWithin>>
    /\ UNCHANGED phVars

\* lines 41-44: the watched field changes and the component re-renders
DependencyChange(v) ==
    /\ dependsOn
    /\ ~effectPending
    /\ v # dependencyValue
    /\ Len(calls) < MaxPending
    /\ dependencyValue' = v
    /\ effectPending' = TRUE
    /\ event' = Event("watch", v, HasDependencyValue(v))
    /\ UNCHANGED <<loadOptions, dependsOn, disabled, options, loading, calls,
                   fieldValue, open, latest, startedAsSet, startedWithin>>
    /\ UNCHANGED phVars

\* an effect that fetches whatever the dependency holds
MutEffectAlwaysFetches(dep, v) == TRUE

\* lines 68-73: does the effect call fetchOptions
EffectFetches(dep, v) == ~dep \/ HasDependencyValue(v)

\* lines 50-74: the effect runs, up to the await of line 57
RunEffect ==
    /\ effectPending
    /\ effectPending' = FALSE
    /\ IF EffectFetches(dependsOn, dependencyValue)
       THEN IF loadOptions
            THEN /\ loading' = TRUE
                 /\ calls' = Append(calls, FormData(dependsOn, dependencyValue))
                 /\ latest' = [status |-> "pending", result |-> <<>>]
                 /\ event' = Event("effect", dependencyValue, TRUE)
                 /\ UNCHANGED options
            ELSE /\ event' = Event("effect", dependencyValue, FALSE)
                 /\ UNCHANGED <<loading, calls, latest, options>>
       ELSE /\ options' = <<>>
            /\ event' = Event("reset", dependencyValue, FALSE)
            /\ UNCHANGED <<loading, calls, latest>>
    /\ UNCHANGED <<loadOptions, dependsOn, disabled, dependencyValue, fieldValue,
                   open, startedAsSet, startedWithin>>
    /\ UNCHANGED phVars

\* history: the settled call was the most recently started one
SettlesLatest(i) == i = Len(calls) /\ latest.status = "pending"

\* lines 57-58, 61-63: the i-th pending call resolves with fetchedOptions
FetchResolved(i, fetchedOptions) ==
    /\ i \in DOMAIN calls
    /\ options' = fetchedOptions
    /\ loading' = FALSE
    /\ calls' = RemoveAt(calls, i)
    /\ latest' = IF SettlesLatest(i)
                 THEN [status |-> "resolved", result |-> fetchedOptions]
                 ELSE latest
    /\ event' = Event("resolved", calls[i].value, SettlesLatest(i))
    /\ UNCHANGED <<loadOptions, dependsOn, disabled, dependencyValue, effectPending,
                   fieldValue, open, startedAsSet, startedWithin>>
    /\ UNCHANGED phVars

\* a catch block that empties the options list
MutOptionsAfterCatchEmptied(opts) == <<>>

\* lines 59-61: the options list the catch block leaves
OptionsAfterCatch(opts) == opts

\* lines 59-63: the i-th pending call rejects; the error goes to console.error
FetchRejected(i) ==
    /\ i \in DOMAIN calls
    /\ options' = OptionsAfterCatch(options)
    /\ loading' = FALSE
    /\ calls' = RemoveAt(calls, i)
    /\ latest' = IF SettlesLatest(i)
                 THEN [status |-> "rejected", result |-> <<>>]
                 ELSE latest
    /\ event' = Event("rejected", calls[i].value, SettlesLatest(i))
    /\ UNCHANGED <<loadOptions, dependsOn, disabled, dependencyValue,
                   effectPending, fieldValue, open, startedAsSet, startedWithin>>
    /\ UNCHANGED phVars

Init == InitMultiSelect /\ InitProfileIdle

Next ==
    \/ \E i \in DOMAIN options : OnSelect(i)
    \/ \E i \in DOMAIN fieldValue.arr : OnBadgeClick(i)
    \/ TogglePopover
    \/ \E v \in DependencyValues : DependencyChange(v)
    \/ RunEffect
    \/ \E i \in DOMAIN calls : \E fetched \in OptionLists : FetchResolved(i, fetched)
    \/ \E i \in DOMAIN calls : FetchRejected(i)

Spec == Init /\ [][Next]_vars

(* --------------------------------------------------------- ProfileHeader *)

\* lines 213-226: a change event of the profile input, up to the await
HandleProfileImageChange(hasFile) ==
    /\ changeEvents < MaxChangeEvents
    /\ changeEvents' = changeEvents + 1
    /\ IF hasFile
       THEN /\ isUploading' = TRUE
            /\ uploads' = uploads + 1
       ELSE UNCHANGED <<isUploading, uploads>>
    /\ UNCHANGED <<coverIsUploading, coverUploads, toasts>>
    /\ UNCHANGED msVars

\* lines 230-247: the timer of a profile upload fires; createObjectURL
\* returns (success toast) or throws (destructive toast); then finally
ProfileUploadSettled(variant) ==
    /\ uploads > 0
    /\ uploads' = uploads - 1
    /\ toasts' = Append(toasts, variant)
    /\ isUploading' = FALSE
    /\ UNCHANGED <<coverIsUploading, coverUploads, changeEvents>>
    /\ UNCHANGED msVars

\* lines 250-253: a change event of the cover input, up to the await
HandleCoverImageChange ==
    /\ changeEvents < MaxChangeEvents
    /\ changeEvents' = changeEvents + 1
    /\ coverIsUploading' = TRUE
    /\ coverUploads' = coverUploads + 1
    /\ UNCHANGED <<isUploading, uploads, toasts>>
    /\ UNCHANGED msVars

\* lines 254-260: the timer of a cover upload fires
CoverUploadSettled ==
    /\ coverUploads > 0
    /\ coverUploads' = coverUploads - 1
    /\ coverIsUploading' = FALSE
    /\ toasts' = Append(toasts, "success")
    /\ UNCHANGED <<isUploading, uploads, changeEvents>>
    /\ UNCHANGED msVars

\* ProfileHeader is a component of its own: the multi-select's state is held
\* fixed while it runs
InitMultiSelectIdle ==
    /\ loadOptions = FALSE
    /\ dependsOn = FALSE
    /\ disabled = FALSE
    /\ options = <<>>
    /\ loading = FALSE
    /\ dependencyValue = UNDEFINED
    /\ effectPending = FALSE
    /\ calls = <<>>
    /\ fieldValue = FieldUndefined
    /\ open = FALSE
    /\ latest = [status |-> "none", result |-> <<>>]
    /\ startedAsSet = TRUE
    /\ startedWithin = TRUE
    /\ event = Event("mount", "", FALSE)

InitProfile == InitMultiSelectIdle /\ InitProfileIdle

NextProfile ==
    \/ \E hasFile \in BOOLEAN : HandleProfileImageChange(hasFile)
    \/ \E variant \in {"success", "destructive"} : ProfileUploadSettled(variant)
    \/ HandleCoverImageChange
    \/ CoverUploadSettled

SpecProfile == InitProfile /\ [][NextProfile]_vars

(* ---------------------------------------------------------------- claims *)

\* field.value || []
Selected(fv) == IF fv.def THEN fv.arr ELSE <<>>

\* s with every occurrence of v left out, the rest in order
RECURSIVE Without(_, _)
Without(s, v) ==
    IF s = <<>> THEN <<>>
    ELSE IF Head(s) = v THEN Without(Tail(s), v)
    ELSE <<Head(s)>> \o Without(Tail(s), v)

\* C1: selecting an option whose value is not in the field value yields a
\* field value that holds that value exactly once, after every previously
\* selected value, unchanged and in the same order (undefined counts as the
\* empty selection).
C1_SelectAdds ==
    [][ (event'.type = "select" /\ ~event'.flag) =>
          /\ ~Includes(Selected(fieldValue), event'.value)
          /\ fieldValue'.def
          /\ Count(fieldValue'.arr, event'.value) = 1
          /\ Len(fieldValue'.arr) = Len(Selected(fieldValue)) + 1
          /\ SubSeq(fieldValue'.arr, 1, Len(Selected(fieldValue))) = Selected(fieldValue)
      ]_vars

\* an unselected option was just added to a selection of two other values
C1_Witness ==
    /\ event.type = "select"
    /\ ~event.flag
    /\ Len(fieldValue.arr) = 3
    /\ fieldValue.arr[3] = event.value

\* C2: deselecting through onSelect on a selected option, or through a badge
\* click while disabled is false, yields a field value without that value and
\* with every other value unchanged and in order; a badge click while disabled
\* is true leaves the field value unchanged.
C2_DeselectRemoves ==
    [][ /\ ( \/ (event'.type = "select" /\ event'.flag)
             \/ (event'.type = "badge" /\ ~event'.flag) ) =>
               /\ Includes(Selected(fieldValue), event'.value)
               /\ fieldValue'.def
               /\ ~Includes(fieldValue'.arr, event'.value)
               /\ fieldValue'.arr = Without(Selected(fieldValue), event'.value)
        /\ (event'.type = "badge" /\ event'.flag) =>
               /\ disabled
               /\ fieldValue' = fieldValue
      ]_vars

\* a badge was clicked away and two other values stay selected
C2_Witness ==
    /\ event.type = "badge"
    /\ ~event.flag
    /\ ~disabled
    /\ Len(fieldValue.arr) = 2

\* a selected option was deselected through onSelect, others stay selected
C2_WitnessSelect ==
    /\ event.type = "select"
    /\ event.flag
    /\ Len(fieldValue.arr) >= 1

\* a badge was clicked while disabled
C2_WitnessDisabled ==
    /\ event.type = "badge"
    /\ event.flag
    /\ Len(fieldValue.arr) >= 1

\* C3: whenever dependsOn is configured, the dependency is empty and the
\* effect for that value has run, the options list is empty.
C3_EmptyDependencyEmptyOptions ==
    (dependsOn /\ ~HasDependencyValue(dependencyValue) /\ ~effectPending)
        => options = <<>>

\* C4: a field value that starts without duplicates (or undefined) never
\* holds the same value twice.
C4_SelectionIsSet ==
    startedAsSet => NoDuplicates(fieldValue.arr)

\* three values are selected, the last one added after an options reload
C4_Witness ==
    /\ startedAsSet
    /\ event.type = "select"
    /\ ~event.flag
    /\ Len(fieldValue.arr) = 3
    /\ latest.status = "resolved"

\* C5 as stated: every selected value is the value of an option of the
\* current options list (given that it was so at mount).
C5_SelectionWithinOptions ==
    startedWithin =>
        \A i \in DOMAIN fieldValue.arr : Includes(ValuesOf(options), fieldValue.arr[i])

\* C5 amended: a step adds a value to the field value only if that value is
\* the value of an option of the options list at that step, and a step that
\* changes the options list leaves the field value as it is.
C5_AddedFromOptions ==
    [][ /\ \A i \in DOMAIN fieldValue'.arr :
              Count(fieldValue'.arr, fieldValue'.arr[i])
                  > Count(Selected(fieldValue), fieldValue'.arr[i])
              => Includes(ValuesOf(options), fieldValue'.arr[i])
        /\ options' # options => fieldValue' = fieldValue
      ]_vars

\* a value was just added while another selected value is no option any more
C5_Witness ==
    /\ event.type = "select"
    /\ ~event.flag
    /\ \E i \in DOMAIN fieldValue.arr : ~Includes(ValuesOf(options), fieldValue.arr[i])
    /\ startedWithin

C7_FetchOnDependencyChange ==
    [][ /\ (effectPending /\ ~effectPending') =>
              IF loadOptions /\ dependsOn /\ HasDependencyValue(dependencyValue)
              THEN calls' = Append(calls, KeyedFormData(dependencyValue))
              ELSE IF loadOptions /\ ~dependsOn
              THEN calls' = Append(calls, NoFormData) /\ event.type = "mount"
              ELSE calls' = calls
        /\ Len(calls') > Len(calls) =>
              /\ effectPending /\ ~effectPending'
              /\ loadOptions
              /\ dependsOn => HasDependencyValue(dependencyValue)
        /\ dependencyValue' # dependencyValue => (~effectPending /\ effectPending')
        /\ effectPending => dependencyValue' = dependencyValue
      ]_vars

\* the dependency changed while a call was pending and a second call started
C7_Witness ==
    /\ event.type = "effect"
    /\ event.flag
    /\ dependsOn
    /\ Len(calls) = 2
    /\ calls[2] = KeyedFormData(dependencyValue)
    /\ calls[1] # calls[2]

\* C8: once every pending call has settled, the options list is the result
\* of the call made for the current dependency value, or the empty list if
\* the dependency is empty.
C8_LatestDependencyWins ==
    (loadOptions /\ dependsOn /\ ~effectPending /\ calls = <<>>) =>
        IF HasDependencyValue(dependencyValue)
        THEN latest.status = "resolved" => options = latest.result
        ELSE options = <<>>

\* C9: after the mount effect has run, loading = TRUE implies that a
\* loadOptions call is pending.
C9_LoadingOnlyWhilePending ==
    (event.type # "mount" /\ loading) => calls # <<>>

\* C10: isUploading is true in every state in which a profile upload is
\* pending; once none is pending after an upload, isUploading is false.
C10_UploadingWhilePending ==
    /\ uploads > 0 => isUploading
    /\ uploads = 0 => ~isUploading

====
